---- MODULE Spec2Model ----
(***************************************************************************)
(* Model of the SHOP.CO cart and auth API (src/server.js).                 *)
(*                                                                         *)
(* Every route handler is an async function with at most two store calls:  *)
(* `await Cart.findOne({ userId })` and `await cart.save()` (for the auth  *)
(* routes `await User.findOne(...)` and `await user.save()`).  Between the *)
(* two awaits other requests may run, so each handler is modelled as two   *)
(* atomic steps: the Find step (the query is answered and the synchronous  *)
(* code up to the call of save() runs on the in-memory document) and the   *)
(* Save step (the write reaches the collection and the response is sent).  *)
(*                                                                         *)
(* The collection is a sequence of documents; a document's _id is its      *)
(* position.  save() is Mongoose's: a new document is inserted (and the    *)
(* unique index on userId rejects a second document for the same userId),  *)
(* a loaded document is updated with the changes tracked since it was      *)
(* loaded:                                                                 *)
(*   items[i].quantity = v   -> $set items.i.quantity, guarded by __v      *)
(*   items.push(x)           -> $push items, increments __v                *)
(*   items = <other array>   -> $set items, guarded by __v, increments __v *)
(*   a value equal to the old one is not a change                          *)
(* __v is only ever compared with the value that was loaded, so instead of *)
(* the counter each in-flight request carries versionMoved: "__v has been  *)
(* incremented since I loaded the document".                               *)
(*                                                                         *)
(* Date.now() is the wall clock, which is not monotonic: the value a       *)
(* handler stores in updatedAt is any clock value, chosen in its Save step *)
(* (it is not observable before the write).                                *)
(*                                                                         *)
(* resp is the last response sent, with the request it answers, what its   *)
(* findOne returned and what the collection held for its userId when its   *)
(* last store call was answered.                                           *)
(*                                                                         *)
(* A JavaScript value that may be undefined is the empty tuple or a        *)
(* one-element tuple.  The display-only fields name and image are treated  *)
(* by the code exactly as price is, and are represented by price.          *)
(***************************************************************************)
EXTENDS Integers, Sequences, FiniteSets, TLC

(* ---------------------------- bounds ---------------------------------- *)
MaxItems == 2        \* longest items array the model lets a cart grow to
MaxQty == 2          \* largest stored quantity the model follows
MaxTime == 1         \* largest value Date.now() returns

MinQty == 1 - MaxQty \* smallest quantity an increment may produce
Users == {"u1", "u2"}
Reqs == {"r1", "r2"}

Undefined == << >>
Some(v) == << v >>

\* a line item / a request body of POST /add
Item(id, size, color, price, quantity) ==
    [id |-> id, size |-> size, color |-> color, price |-> price,
     quantity |-> quantity]

\* the :itemId path parameter is a string, written as its characters
OneStr == <<"1">>
TwoXStr == <<"2", "x">>
XStr == <<"x">>

\* Requests of the sequential specification: request bodies of POST /add,
\* <<:itemId, body.quantity>> of PUT /update, :itemId of DELETE /remove
SeqAddInputs(userId) ==
    IF userId = "u1"
    THEN {Item(1, Undefined, Undefined, Some(10), Undefined),
          Item(1, Undefined, Undefined, Undefined, Some(2)),
          Item(1, Undefined, Undefined, Some(10), Some(0)),
          Item(1, Undefined, Undefined, Some(10), Some(-1)),
          Item(1, Some("M"), Undefined, Undefined, Some(2)),
          Item(2, Undefined, Some("red"), Undefined, Some(2))}
    ELSE {}

SeqUpdateInputs(userId) ==
    IF userId = "u1"
    THEN {<<OneStr, Undefined>>, <<OneStr, Some(0)>>, <<OneStr, Some(2)>>,
          <<TwoXStr, Some(-1)>>, <<XStr, Some(2)>>}
    ELSE {<<OneStr, Some(2)>>}

SeqRemoveInputs(userId) ==
    IF userId = "u1" THEN {OneStr, TwoXStr, XStr} ELSE {OneStr}

\* Requests of the concurrent specification, all for one userId
ConcUsers == {"u1"}
ConcAddInputs == {Item(1, Undefined, Undefined, Some(10), Undefined),
                  Item(1, Undefined, Undefined, Some(10), Some(2))}
ConcUpdateInputs == {<<OneStr, Some(0)>>}
ConcRemoveInputs == {OneStr}

Times == 0 .. MaxTime

VARIABLES carts, users, req, resp
vars == <<carts, users, req, resp>>

(* ------------------------- JavaScript helpers ------------------------- *)
NaN == [nan |-> TRUE, val |-> 0]
Num(n) == [nan |-> FALSE, val |-> n]

Digits == <<"0", "1", "2", "3", "4", "5", "6", "7", "8", "9">>
IsDigit(c) == \E d \in 1 .. 10 : Digits[d] = c
DigitVal(c) == (CHOOSE d \in 1 .. 10 : Digits[d] = c) - 1

RECURSIVE ParseDigits(_, _, _)
ParseDigits(s, i, acc) ==
    IF i > Len(s) \/ ~IsDigit(s[i]) THEN acc
    ELSE ParseDigits(s, i + 1, 10 * acc + DigitVal(s[i]))

\* parseInt(itemId): the leading digits, NaN when there is none
ParseInt(s) ==
    IF Len(s) = 0 \/ ~IsDigit(s[1]) THEN NaN ELSE Num(ParseDigits(s, 1, 0))

\* newItem.quantity || 1
OrDefault1(q) == IF q = Undefined \/ q = Some(0) THEN 1 ELSE q[1]

\* stored += n  (undefined + n is NaN)
PlusAssign(stored, n) == IF stored = Undefined THEN NaN ELSE Num(stored[1] + n)

\* mutant: the quantity is stored unclamped
MathMax1_NoClamp(q) == IF q = Undefined THEN NaN ELSE Num(q[1])

\* Math.max(1, quantity)  (Math.max(1, undefined) is NaN)
MathMax1(q) ==
    IF q = Undefined THEN NaN ELSE Num(IF q[1] > 1 THEN q[1] ELSE 1)

\* Array.prototype.findIndex, 1-based; 0 stands for -1
\* (hits[k] is the predicate's value on the k-th element)
RECURSIVE FindIndexFrom(_, _)
FindIndexFrom(hits, i) ==
    IF i > Len(hits) THEN 0
    ELSE IF hits[i] THEN i
    ELSE FindIndexFrom(hits, i + 1)

\* the predicate of AddItem's findIndex
SameTriple(item, newItem) ==
    /\ item.id = newItem.id
    /\ item.size = newItem.size
    /\ item.color = newItem.color

existingItemIndex(items, newItem) ==
    FindIndexFrom([k \in 1 .. Len(items) |-> SameTriple(items[k], newItem)], 1)

\* item.id === parseInt(itemId)
IdIs(item, p) == ~p.nan /\ item.id = p.val

\* mutant: a missing id falls back to the first line item
itemIndex_FirstWhenMissing(items, itemId) ==
    LET i == FindIndexFrom(
                 [k \in 1 .. Len(items) |-> IdIs(items[k], ParseInt(itemId))], 1)
    IN  IF i = 0 /\ Len(items) > 0 THEN 1 ELSE i

itemIndex(items, itemId) ==
    FindIndexFrom(
        [k \in 1 .. Len(items) |-> IdIs(items[k], ParseInt(itemId))], 1)

\* mutant: only the first line item with the id is removed
FilterOutId_FirstOnly(items, itemId) ==
    LET i == FindIndexFrom(
                 [k \in 1 .. Len(items) |-> IdIs(items[k], ParseInt(itemId))], 1)
    IN  IF i = 0 THEN items
        ELSE SubSeq(items, 1, i - 1) \o SubSeq(items, i + 1, Len(items))

\* cart.items.filter((item) => item.id !== parseInt(itemId))
FilterOutId(items, itemId) ==
    LET Keep(it) == ~IdIs(it, ParseInt(itemId)) IN SelectSeq(items, Keep)

(* ----------------------------- the store ------------------------------ *)
\* Cart.findOne({ userId }): position of the first match, 0 for null
RECURSIVE FindOneFrom(_, _, _)
FindOneFrom(coll, userId, i) ==
    IF i > Len(coll) THEN 0
    ELSE IF coll[i].userId = userId THEN i
    ELSE FindOneFrom(coll, userId, i + 1)

\* mutant: the filter is ignored, the first document is returned
FindOne_IgnoresFilter(userId) == IF Len(carts) > 0 THEN 1 ELSE 0

FindOne(userId) == FindOneFrom(carts, userId, 1)

\* mutant: there is no unique index on userId
UniqueUserId_NoIndex(coll, userId) == TRUE

\* the unique index of cartSchema.userId
UniqueUserId(coll, userId) == \A i \in 1 .. Len(coll) : coll[i].userId # userId

(* ------------------------- request bookkeeping ------------------------ *)
NoItem == [id |-> 0, size |-> Undefined, color |-> Undefined,
           price |-> Undefined, quantity |-> Undefined]
NoCart == [isNew |-> FALSE, docId |-> 0, items |-> << >>]
NoDelta == [kind |-> "none", idx |-> 0]

Idle == [pc |-> "idle", op |-> "none", userId |-> "", itemId |-> << >>,
         newItem |-> NoItem, quantity |-> Undefined,
         email |-> Undefined, password |-> Undefined, name |-> Undefined,
         cart |-> NoCart, loaded |-> << >>, delta |-> NoDelta,
         invalid |-> FALSE, versionMoved |-> FALSE]

NoResp == [op |-> "none", userId |-> "", itemId |-> << >>,
           newItem |-> NoItem, quantity |-> Undefined,
           email |-> Undefined, password |-> Undefined, name |-> Undefined,
           found |-> FALSE, loaded |-> << >>, before |-> << >>,
           status |-> 0, body |-> << >>, account |-> 0, user |-> << >>,
           error |-> ""]

Free(r) == req[r].pc = "idle"

\* the request a handler starts with
Received(op, userId, itemId, newItem, quantity) ==
    [Idle EXCEPT !.op = op, !.userId = userId, !.itemId = itemId,
                 !.newItem = newItem, !.quantity = quantity]

\* res.status(code).json(...): the response to request rq of a cart route;
\* error is the kind of error.message a 500 carries, before the items the
\* collection holds for the userId when the handler's last store call is
\* answered
Response(rq, found, loaded, code, body, error) ==
    [NoResp EXCEPT !.op = rq.op, !.userId = rq.userId, !.itemId = rq.itemId,
                   !.newItem = rq.newItem, !.quantity = rq.quantity,
                   !.found = found, !.loaded = loaded,
                   !.before = IF FindOne(rq.userId) = 0 THEN << >>
                               ELSE carts[FindOne(rq.userId)].items,
                   !.status = code, !.body = body, !.error = error]

\* the handler reaches `await cart.save()`
AwaitSave(rq, cart, delta, invalid) ==
    [rq EXCEPT !.pc = "saving", !.cart = cart,
               !.loaded = IF cart.isNew THEN << >> ELSE carts[cart.docId].items,
               !.delta = delta, !.invalid = invalid]

\* the document findOne returns
Loaded(d) == [isNew |-> FALSE, docId |-> d, items |-> carts[d].items]

\* new Cart({ userId, items })
NewCart(items) == [isNew |-> TRUE, docId |-> 0, items |-> items]

Init ==
    /\ carts = << >>
    /\ users = << >>
    /\ req = [r \in Reqs |-> Idle]
    /\ resp = NoResp

\* a Find step either answers at once or leaves the handler at save()
Answers(rq, d, code, body, error) ==
    [req |-> Idle, answered |-> TRUE,
     resp |-> Response(rq, d > 0, IF d > 0 THEN carts[d].items ELSE << >>,
                       code, body, error)]
Continues(rq) == [req |-> rq, answered |-> FALSE, resp |-> NoResp]

FindStep(r, out) ==
    /\ Free(r)
    /\ req' = [req EXCEPT ![r] = out.req]
    /\ resp' = IF out.answered THEN out.resp ELSE resp
    /\ UNCHANGED <<carts, users>>

(* ------------------------------ save() -------------------------------- *)
\* the stored form of the in-memory document
AsStored(rq, t) == [userId |-> rq.userId, items |-> rq.cart.items,
                    updatedAt |-> t]

\* does save() succeed?  Validation runs first, then the write: an insert
\* is subject to the unique index, a guarded update to the __v it loaded.
SaveSucceeds(rq) ==
    /\ ~rq.invalid
    /\ rq.delta.kind = "insert" => UniqueUserId(carts, rq.userId)
    /\ rq.delta.kind \in {"setQty", "setItems"} => ~rq.versionMoved

\* the error save() rejects with
SaveError(rq) ==
    IF rq.invalid THEN "ValidationError"
    ELSE IF rq.delta.kind = "insert" THEN "E11000 duplicate key"
    ELSE "VersionError"

\* does the write increment __v?
IncrementsVersion(rq) == rq.delta.kind \in {"push", "setItems"}

\* mutant: a changed quantity is sent as an increment of the stored one
Updated_AtomicInc(rq, t) ==
    LET d == rq.cart.docId
        i == rq.delta.idx
        k == rq.delta.kind
    IN  CASE k = "setQty" ->
                [carts EXCEPT
                    ![d].items[i].quantity =
                        IF @ = Undefined \/ rq.loaded[i].quantity = Undefined
                        THEN rq.cart.items[i].quantity
                        ELSE Some(@[1] + rq.cart.items[i].quantity[1]
                                       - rq.loaded[i].quantity[1]),
                    ![d].updatedAt = t]
          [] k = "push" ->
                [carts EXCEPT ![d].items =
                                  Append(@, rq.cart.items[Len(rq.cart.items)]),
                              ![d].updatedAt = t]
          [] k = "setItems" ->
                [carts EXCEPT ![d].items = rq.cart.items, ![d].updatedAt = t]
          [] OTHER -> [carts EXCEPT ![d].updatedAt = t]

\* a loaded document after the update save() sends for it
Updated(rq, t) ==
    LET d == rq.cart.docId
        i == rq.delta.idx
        k == rq.delta.kind
    IN  CASE k = "setQty" ->
                [carts EXCEPT
                    ![d].items[i].quantity = rq.cart.items[i].quantity,
                    ![d].updatedAt = t]
          [] k = "push" ->
                [carts EXCEPT ![d].items =
                                  Append(@, rq.cart.items[Len(rq.cart.items)]),
                              ![d].updatedAt = t]
          [] k = "setItems" ->
                [carts EXCEPT ![d].items = rq.cart.items, ![d].updatedAt = t]
          [] OTHER -> [carts EXCEPT ![d].updatedAt = t]

\* mutant: a document whose items become empty is deleted
Written_EmptyCartDeleted(rq, t) ==
    IF rq.delta.kind = "insert" THEN Append(carts, AsStored(rq, t))
    ELSE IF rq.delta.kind = "setItems" /\ rq.cart.items = << >>
    THEN [j \in 1 .. Len(carts) - 1 |->
             IF j < rq.cart.docId THEN carts[j] ELSE carts[j + 1]]
    ELSE Updated(rq, t)

\* the collection after a successful save() of a document stamped t
Written(rq, t) ==
    IF rq.delta.kind = "insert" THEN Append(carts, AsStored(rq, t))
    ELSE Updated(rq, t)

\* the model follows a cart only up to MaxItems line items
WithinBounds(rq) ==
    rq.delta.kind = "push" => Len(carts[rq.cart.docId].items) < MaxItems

\* `await cart.save(); res.json({ success: true, ..., cart: cart.items })`
\* or, when save() rejects, the catch block's 500
SaveAndRespond(r, op, t) ==
    LET rq == req[r]
        ok == SaveSucceeds(rq)
    IN  /\ rq.pc = "saving"
        /\ rq.op = op
        /\ WithinBounds(rq)
        /\ carts' = IF ok THEN Written(rq, t) ELSE carts
        /\ resp' = IF ok
                   THEN Response(rq, ~rq.cart.isNew, rq.loaded, 200,
                                 rq.cart.items, "")
                   ELSE Response(rq, ~rq.cart.isNew, rq.loaded, 500, << >>,
                                 SaveError(rq))
        /\ req' = [x \in Reqs |->
                     IF x = r THEN Idle
                     ELSE IF /\ ok
                             /\ req[x].pc = "saving"
                             /\ req[x].cart.docId = rq.cart.docId
                          THEN [req[x] EXCEPT
                                  !.versionMoved = @ \/ IncrementsVersion(rq)]
                          ELSE req[x]]
        /\ UNCHANGED users

(* ------------------------------ GetCart ------------------------------- *)
\* mutant: the empty cart is answered without being saved
GetCartApply_NoSave(rq, d) ==
    IF d = 0 THEN Answers(rq, d, 200, << >>, "")
    ELSE Answers(rq, d, 200, carts[d].items, "")

GetCartApply(rq, d) ==
    IF d = 0
    THEN Continues(AwaitSave(rq, NewCart(<< >>),
                             [kind |-> "insert", idx |-> 0], FALSE))
    ELSE Answers(rq, d, 200, carts[d].items, "")

GetCartFind(r, userId) ==
    FindStep(r, GetCartApply(Received("get", userId, << >>, NoItem, Undefined),
                             FindOne(userId)))

GetCartSave(r) == \E t \in Times : SaveAndRespond(r, "get", t)

(* ------------------------------ AddItem ------------------------------- *)
\* the synchronous code of the handler between findOne and save()
AddItemApply(rq, d, newItem) ==
    IF d = 0
    THEN Continues(AwaitSave(rq, NewCart(<<newItem>>),
                             [kind |-> "insert", idx |-> 0], FALSE))
    ELSE LET items == carts[d].items
             i == existingItemIndex(items, newItem)
             v == PlusAssign(items[i].quantity, OrDefault1(newItem.quantity))
         IN  IF i > 0
             THEN IF v.nan
                  THEN Continues(AwaitSave(rq, Loaded(d),
                                           [kind |-> "setQty", idx |-> i],
                                           TRUE))
                  ELSE Continues(AwaitSave(rq,
                                     [Loaded(d) EXCEPT
                                         !.items[i].quantity = Some(v.val)],
                                     [kind |-> "setQty", idx |-> i],
                                     FALSE))
             ELSE Continues(AwaitSave(rq,
                                [Loaded(d) EXCEPT !.items = Append(@, newItem)],
                                [kind |-> "push", idx |-> 0], FALSE))

\* quantities and lengths the model follows
AddItemInBounds(d, newItem) ==
    d > 0 =>
        LET items == carts[d].items
            i == existingItemIndex(items, newItem)
            v == PlusAssign(items[i].quantity, OrDefault1(newItem.quantity))
        IN  IF i > 0 THEN v.nan \/ v.val \in MinQty .. MaxQty
            ELSE Len(items) < MaxItems

AddItemFind(r, userId, newItem) ==
    /\ AddItemInBounds(FindOne(userId), newItem)
    /\ FindStep(r, AddItemApply(Received("add", userId, << >>, newItem,
                                         Undefined),
                                FindOne(userId), newItem))

AddItemSave(r) == \E t \in Times : SaveAndRespond(r, "add", t)

(* --------------------------- UpdateQuantity --------------------------- *)
\* mutant: the quantity of every line item with the id is set
UpdateApply_AllVariants(rq, d, itemId, quantity) ==
    IF d = 0 THEN Answers(rq, d, 404, << >>, "")
    ELSE LET items == carts[d].items
             i == itemIndex(items, itemId)
             v == MathMax1(quantity)
         IN  IF i = 0 THEN Answers(rq, d, 404, << >>, "")
             ELSE IF v.nan
             THEN Continues(AwaitSave(rq, Loaded(d),
                                      [kind |-> "setQty", idx |-> i], TRUE))
             ELSE Continues(AwaitSave(rq,
                                [Loaded(d) EXCEPT !.items =
                                    [k \in 1 .. Len(items) |->
                                        IF IdIs(items[k], ParseInt(itemId))
                                        THEN [items[k] EXCEPT
                                                 !.quantity = Some(v.val)]
                                        ELSE items[k]]],
                                [kind |-> "setItems", idx |-> 0],
                                FALSE))

UpdateApply(rq, d, itemId, quantity) ==
    IF d = 0 THEN Answers(rq, d, 404, << >>, "")
    ELSE LET items == carts[d].items
             i == itemIndex(items, itemId)
             v == MathMax1(quantity)
         IN  IF i = 0 THEN Answers(rq, d, 404, << >>, "")
             ELSE IF v.nan
             THEN Continues(AwaitSave(rq, Loaded(d),
                                      [kind |-> "setQty", idx |-> i], TRUE))
             ELSE Continues(AwaitSave(rq,
                                [Loaded(d) EXCEPT
                                    !.items[i].quantity = Some(v.val)],
                                [kind |-> IF items[i].quantity = Some(v.val)
                                          THEN "touch" ELSE "setQty",
                                 idx |-> i],
                                FALSE))

UpdateQuantityFind(r, userId, itemId, quantity) ==
    FindStep(r, UpdateApply(Received("update", userId, itemId, NoItem,
                                     quantity),
                            FindOne(userId), itemId, quantity))

UpdateQuantitySave(r) == \E t \in Times : SaveAndRespond(r, "update", t)

(* ----------------------------- RemoveItem ----------------------------- *)
RemoveApply(rq, d, itemId) ==
    IF d = 0 THEN Answers(rq, d, 404, << >>, "")
    ELSE LET items == carts[d].items
             kept == FilterOutId(items, itemId)
         IN  Continues(AwaitSave(rq, [Loaded(d) EXCEPT !.items = kept],
                                 [kind |-> IF kept = items THEN "touch"
                                           ELSE "setItems",
                                  idx |-> 0],
                                 FALSE))

RemoveItemFind(r, userId, itemId) ==
    FindStep(r, RemoveApply(Received("remove", userId, itemId, NoItem,
                                     Undefined),
                            FindOne(userId), itemId))

RemoveItemSave(r) == \E t \in Times : SaveAndRespond(r, "remove", t)

(* ------------------------------ ClearCart ----------------------------- *)
\* mutant: clearing a missing cart creates it
ClearApply_Upsert(rq, d) ==
    IF d = 0
    THEN Continues(AwaitSave(rq, NewCart(<< >>),
                             [kind |-> "insert", idx |-> 0], FALSE))
    ELSE Continues(AwaitSave(rq, [Loaded(d) EXCEPT !.items = << >>],
                             [kind |-> IF carts[d].items = << >> THEN "touch"
                                       ELSE "setItems",
                              idx |-> 0],
                             FALSE))

ClearApply(rq, d) ==
    IF d = 0 THEN Answers(rq, d, 404, << >>, "")
    ELSE LET items == carts[d].items
         IN  Continues(AwaitSave(rq, [Loaded(d) EXCEPT !.items = << >>],
                                 [kind |-> IF items = << >> THEN "touch"
                                           ELSE "setItems",
                                  idx |-> 0],
                                 FALSE))

ClearCartFind(r, userId) ==
    FindStep(r, ClearApply(Received("clear", userId, << >>, NoItem, Undefined),
                           FindOne(userId)))

ClearCartSave(r) == \E t \in Times : SaveAndRespond(r, "clear", t)

(* --------------------------- store failures --------------------------- *)
CartOps == {"get", "add", "update", "remove", "clear"}

\* the error of a store call that fails because the store is unreachable
StoreDown == "store unreachable"

\* findOne rejects: the catch block answers 500
FindFails(r, op, userId) ==
    FindStep(r, Answers(Received(op, userId, << >>, NoItem, Undefined),
                        0, 500, << >>, StoreDown))

\* mutant: the write is applied before save() rejects
SaveFails_AfterWrite(r) ==
    /\ req[r].pc = "saving"
    /\ req[r].delta.kind # "insert"
    /\ WithinBounds(req[r])
    /\ req' = [req EXCEPT ![r] = Idle]
    /\ resp' = Response(req[r], ~req[r].cart.isNew, req[r].loaded, 500, << >>,
                        StoreDown)
    /\ carts' = Updated(req[r], 0)
    /\ UNCHANGED users

\* save() rejects because the store is unreachable: the catch block's 500
SaveFails(r) ==
    /\ req[r].pc = "saving"
    /\ req' = [req EXCEPT ![r] = Idle]
    /\ resp' = Response(req[r], ~req[r].cart.isNew, req[r].loaded, 500, << >>,
                        StoreDown)
    /\ UNCHANGED <<carts, users>>

(* --------------------------- user accounts ---------------------------- *)
\* A field of a JSON request body that the schema declares a String is
\* absent (Undefined), a string, or an object; the one object followed is
\* { "$ne": null }.
Str(s) == << s >>
NeNull == << "$ne", "null" >>
IsString(v) == Len(v) = 1

\* Bodies of POST /register, <<email, password, name>>, and of POST /login,
\* <<email, password>>
RegisterInputs == {<<Str("a@x"), Str("p"), Some("Al")>>,
                   <<Str("a@x"), Str("q"), Undefined>>,
                   <<Str("A@x"), Str("p"), Undefined>>,
                   <<Str("a@x"), Undefined, Undefined>>}
LoginInputs == {<<Str("a@x"), Str("p")>>, <<Str("a@x"), Str("q")>>,
                <<Str("A@x"), Str("p")>>, <<Str("b@x"), Str("p")>>,
                <<Str("a@x"), Undefined>>, <<Str("a@x"), NeNull>>}

\* Does a stored string satisfy the value v a filter gives for its path?
\* A string is compared for equality.  undefined is sent as null, which no
\* stored string equals.  An object is a query selector: every stored
\* string satisfies { $ne: null }.
Matches(v, stored) == IF IsString(v) THEN stored = v[1] ELSE v = NeNull

\* User.findOne({ email }): position of the first match, 0 for null
existingUser(email) ==
    FindIndexFrom([k \in 1 .. Len(users) |-> Matches(email, users[k].email)],
                  1)

\* User.findOne({ email, password })
LoginUser(email, password) ==
    FindIndexFrom([k \in 1 .. Len(users) |->
                      /\ Matches(email, users[k].email)
                      /\ Matches(password, users[k].password)], 1)

\* mutant: there is no unique index on email
UniqueEmail_NoIndex(coll, email) == TRUE

\* the unique index of userSchema.email
UniqueEmail(coll, email) == \A i \in 1 .. Len(coll) : coll[i].email # email

\* the request a handler of /api/auth starts with
ReceivedAuth(op, email, password, name) ==
    [Idle EXCEPT !.op = op, !.email = email, !.password = password,
                 !.name = name]

\* the response of a handler of /api/auth: account is the userId of
\* register's success, user the user object of login's
AuthResponse(rq, found, code, account, user, error) ==
    [NoResp EXCEPT !.op = rq.op, !.email = rq.email,
                   !.password = rq.password, !.name = rq.name,
                   !.found = found, !.status = code, !.account = account,
                   !.user = user, !.error = error]

AuthAnswers(rq, found, code, account, user, error) ==
    [req |-> Idle, answered |-> TRUE,
     resp |-> AuthResponse(rq, found, code, account, user, error)]

\* new User({ email, password, name }), as stored when created at t;
\* createdAt is the schema's default, Date.now
NewUser(rq, t) == [email |-> rq.email[1], password |-> rq.password[1],
                   name |-> rq.name, createdAt |-> t]

\* validation of the new document: email and password are required Strings
UserInvalid(rq) == ~IsString(rq.email) \/ ~IsString(rq.password)

(* ------------------------------ Register ------------------------------ *)
\* mutant: an existing account is answered 400 only when the password
\* agrees, otherwise the handler goes on to save
RegisterApply_SamePasswordOnly(rq, d) ==
    IF d > 0 /\ Matches(rq.password, users[d].password)
    THEN AuthAnswers(rq, TRUE, 400, 0, << >>, "")
    ELSE Continues([rq EXCEPT !.pc = "savingUser",
                              !.invalid = UserInvalid(rq)])

RegisterApply(rq, d) ==
    IF d > 0 THEN AuthAnswers(rq, TRUE, 400, 0, << >>, "")
    ELSE Continues([rq EXCEPT !.pc = "savingUser",
                              !.invalid = UserInvalid(rq)])

RegisterFind(r, email, password, name) ==
    FindStep(r, RegisterApply(ReceivedAuth("register", email, password, name),
                              existingUser(email)))

\* `await user.save(); res.json({ success: true, ..., userId: user._id })`
\* or, when save() rejects, the catch block's 500
RegisterSave(r) ==
    \E t \in Times :
        LET rq == req[r]
            ok == ~rq.invalid /\ UniqueEmail(users, rq.email[1])
        IN  /\ rq.pc = "savingUser"
            /\ users' = IF ok THEN Append(users, NewUser(rq, t)) ELSE users
            /\ resp' = IF ok
                       THEN AuthResponse(rq, FALSE, 200, Len(users) + 1,
                                         << >>, "")
                       ELSE AuthResponse(rq, FALSE, 500, 0, << >>,
                                         IF rq.invalid THEN "ValidationError"
                                         ELSE "E11000 duplicate key")
            /\ req' = [req EXCEPT ![r] = Idle]
            /\ UNCHANGED carts

(* ------------------------------- Login -------------------------------- *)
\* user: { id: user._id, email: user.email, name: user.name }
PublicUser(d) == [id |-> d, email |-> users[d].email, name |-> users[d].name]

LoginApply(rq, d) ==
    IF d = 0 THEN AuthAnswers(rq, FALSE, 401, 0, << >>, "")
    ELSE AuthAnswers(rq, TRUE, 200, 0, << PublicUser(d) >>, "")

Login(r, email, password) ==
    FindStep(r, LoginApply(ReceivedAuth("login", email, password, Undefined),
                           LoginUser(email, password)))

(* ---------------------- store failures, accounts ---------------------- *)
AuthOps == {"register", "login"}

\* User.findOne rejects: the catch block answers 500
UserFindFails(r, op, email, password) ==
    FindStep(r, AuthAnswers(ReceivedAuth(op, email, password, Undefined),
                            FALSE, 500, 0, << >>, StoreDown))

\* user.save() rejects because the store is unreachable
RegisterSaveFails(r) ==
    /\ req[r].pc = "savingUser"
    /\ req' = [req EXCEPT ![r] = Idle]
    /\ resp' = AuthResponse(req[r], FALSE, 500, 0, << >>, StoreDown)
    /\ UNCHANGED <<carts, users>>

(* --------------------------- specifications -------------------------- *)
\* Concurrent requests: both request slots, a few requests for one userId
Next ==
    \/ \E r \in Reqs, u \in ConcUsers : GetCartFind(r, u)
    \/ \E r \in Reqs : GetCartSave(r)
    \/ \E r \in Reqs, u \in ConcUsers, it \in ConcAddInputs :
          AddItemFind(r, u, it)
    \/ \E r \in Reqs : AddItemSave(r)
    \/ \E r \in Reqs, u \in ConcUsers, in \in ConcUpdateInputs :
          UpdateQuantityFind(r, u, in[1], in[2])
    \/ \E r \in Reqs : UpdateQuantitySave(r)
    \/ \E r \in Reqs, u \in ConcUsers, id \in ConcRemoveInputs :
          RemoveItemFind(r, u, id)
    \/ \E r \in Reqs : RemoveItemSave(r)
    \/ \E r \in Reqs, u \in ConcUsers : ClearCartFind(r, u)
    \/ \E r \in Reqs : ClearCartSave(r)
    \/ \E r \in Reqs, op \in CartOps, u \in ConcUsers : FindFails(r, op, u)
    \/ \E r \in Reqs : SaveFails(r)

Spec == Init /\ [][Next]_vars

\* One request at a time: a request starts only when none is in flight
SeqReq == "r1"

SeqNext ==
    \/ \E u \in Users : GetCartFind(SeqReq, u)
    \/ GetCartSave(SeqReq)
    \/ \E u \in Users : \E it \in SeqAddInputs(u) : AddItemFind(SeqReq, u, it)
    \/ AddItemSave(SeqReq)
    \/ \E u \in Users : \E in \in SeqUpdateInputs(u) :
          UpdateQuantityFind(SeqReq, u, in[1], in[2])
    \/ UpdateQuantitySave(SeqReq)
    \/ \E u \in Users : \E id \in SeqRemoveInputs(u) :
          RemoveItemFind(SeqReq, u, id)
    \/ RemoveItemSave(SeqReq)
    \/ \E u \in Users : ClearCartFind(SeqReq, u)
    \/ ClearCartSave(SeqReq)
    \/ \E op \in CartOps, u \in Users : FindFails(SeqReq, op, u)
    \/ SaveFails(SeqReq)

SeqSpec == Init /\ [][SeqNext]_vars

\* Concurrent requests to /api/auth
AuthNext ==
    \/ \E r \in Reqs, in \in RegisterInputs :
          RegisterFind(r, in[1], in[2], in[3])
    \/ \E r \in Reqs : RegisterSave(r)
    \/ \E r \in Reqs, in \in LoginInputs : Login(r, in[1], in[2])
    \/ \E r \in Reqs, op \in AuthOps, in \in LoginInputs :
          UserFindFails(r, op, in[1], in[2])
    \/ \E r \in Reqs : RegisterSaveFails(r)

AuthSpec == Init /\ [][AuthNext]_vars

\* Requests to both services for two userIds, one request at a time
FrameAddInputs == {Item(1, Undefined, Undefined, Some(10), Some(1))}
FrameUpdateInputs == {<<OneStr, Some(2)>>}
FrameRegisterInputs == {<<Str("a@x"), Str("p"), Some("Al")>>}
FrameLoginInputs == {<<Str("a@x"), Str("p")>>}

FrameNext ==
    \/ \E u \in Users : GetCartFind(SeqReq, u)
    \/ GetCartSave(SeqReq)
    \/ \E u \in Users, it \in FrameAddInputs :
          AddItemFind(SeqReq, u, it)
    \/ AddItemSave(SeqReq)
    \/ \E u \in Users, in \in FrameUpdateInputs :
          UpdateQuantityFind(SeqReq, u, in[1], in[2])
    \/ UpdateQuantitySave(SeqReq)
    \/ \E u \in Users, id \in ConcRemoveInputs :
          RemoveItemFind(SeqReq, u, id)
    \/ RemoveItemSave(SeqReq)
    \/ \E u \in Users : ClearCartFind(SeqReq, u)
    \/ ClearCartSave(SeqReq)
    \/ \E in \in FrameRegisterInputs :
          RegisterFind(SeqReq, in[1], in[2], in[3])
    \/ RegisterSave(SeqReq)
    \/ \E in \in FrameLoginInputs : Login(SeqReq, in[1], in[2])
    \/ \E op \in CartOps, u \in Users : FindFails(SeqReq, op, u)
    \/ SaveFails(SeqReq)
    \/ \E op \in AuthOps, in \in FrameLoginInputs :
          UserFindFails(SeqReq, op, in[1], in[2])
    \/ RegisterSaveFails(SeqReq)

FrameSpec == Init /\ [][FrameNext]_vars

(* ============================= properties ============================= *)
\* position of userId's document in a collection, 0 when there is none
DocIn(coll, userId) == FindOneFrom(coll, userId, 1)

\* the items of userId's document, none when there is no document
ItemsIn(coll, userId) ==
    IF DocIn(coll, userId) = 0 THEN << >> ELSE coll[DocIn(coll, userId)].items

\* positions of the line items of items that have newItem's (id, size, color)
TripleAt(items, newItem) ==
    {i \in 1 .. Len(items) : /\ items[i].id = newItem.id
                             /\ items[i].size = newItem.size
                             /\ items[i].color = newItem.color}

Least(S) == CHOOSE i \in S : \A j \in S : i <= j

\* the quantity an AddItem request asks for: 1 when absent or falsy
Asked(q) == IF q = Undefined \/ q = Some(0) THEN 1 ELSE q[1]

(* C1: in every reachable state, interleaved requests included, every      *)
(* persisted CartDocument holds at most one line item for any              *)
(* (id, size, color) triple.                                               *)
C1_OneLineItemPerTriple ==
    \A d \in 1 .. Len(carts) :
        \A i \in 1 .. Len(carts[d].items) :
            TripleAt(carts[d].items, carts[d].items[i]) = {i}

\* request r's save() returns in this step, the store being reachable
Completes(r, op) ==
    /\ req[r].pc = "saving"
    /\ req[r].op = op
    /\ req'[r].pc = "idle"
    /\ resp'.error # StoreDown

\* a handler answers in its Find step, without a save()
AnswersAtOnce == resp' # resp /\ req' = req

(* C2: AddItem on a cart that already holds a line item with the same      *)
(* (id, size, color) succeeds and increases that line item's quantity by   *)
(* exactly the incoming quantity (1 when absent or falsy), leaving the     *)
(* length, the order and every other line item unchanged.                  *)
C2_MatchingAddIncrements ==
    [][\A r \in Reqs :
          LET items == ItemsIn(carts, req[r].userId)
              at == TripleAt(items, req[r].newItem)
          IN  (Completes(r, "add") /\ at # {}) =>
                  /\ resp'.status = 200
                  /\ items[Least(at)].quantity # Undefined
                  /\ ItemsIn(carts', req[r].userId) =
                        [items EXCEPT ![Least(at)].quantity =
                            Some(@[1] + Asked(req[r].newItem.quantity))]]_vars

(* C3: AddItem whose (id, size, color) matches no existing line item,      *)
(* whether the cart exists or is created by the call, appends exactly one  *)
(* line item at the end, whose stored quantity is the given quantity, or 1 *)
(* when the incoming quantity is omitted, zero or otherwise falsy.         *)
C3_NewTripleAppendsWithDefault ==
    [][\A r \in Reqs :
          LET items == ItemsIn(carts, req[r].userId)
              it == req[r].newItem
          IN  (Completes(r, "add") /\ TripleAt(items, it) = {}) =>
                  /\ resp'.status = 200
                  /\ ItemsIn(carts', req[r].userId) =
                        Append(items,
                               [it EXCEPT !.quantity =
                                              Some(Asked(it.quantity))])]_vars

(* C4: in every reachable state every line item of every persisted         *)
(* CartDocument has an integer quantity that is at least 1.                *)
C4_QuantityAtLeastOne ==
    \A d \in 1 .. Len(carts) :
        \A i \in 1 .. Len(carts[d].items) :
            /\ carts[d].items[i].quantity # Undefined
            /\ carts[d].items[i].quantity[1] >= 1

\* positions of the line items of items whose id is parseInt(itemId)
IdAt(items, itemId) ==
    {i \in 1 .. Len(items) :
        ~ParseInt(itemId).nan /\ items[i].id = ParseInt(itemId).val}

(* C5: a successful UpdateQuantity stores max(1, quantity) as the quantity *)
(* of the matched line item: 1 for every quantity that is zero or          *)
(* negative, the request's quantity for every quantity of 1 or more.       *)
C5_UpdateStoresClamped ==
    [][\A r \in Reqs :
          LET after == ItemsIn(carts', req[r].userId)
              at == IdAt(after, req[r].itemId)
              q == req[r].quantity
          IN  (Completes(r, "update") /\ resp'.status = 200) =>
                  /\ at # {}
                  /\ q # Undefined
                  /\ after[Least(at)].quantity =
                        Some(IF q[1] >= 1 THEN q[1] ELSE 1)]_vars

W_C5_ZeroOrNegativeStoredAsOne ==
    LET items == ItemsIn(carts, resp.userId)
        at == IdAt(resp.loaded, resp.itemId)
    IN  /\ resp.op = "update"
        /\ resp.status = 200
        /\ resp.quantity \in {Some(0), Some(-1)}
        /\ at # {}
        /\ resp.loaded[Least(at)].quantity # Some(1)
        /\ Len(items) = Len(resp.loaded)
        /\ items[Least(at)].quantity = Some(1)

(* C6: UpdateQuantity on an existing cart that holds no line item whose id *)
(* equals itemId responds 404 and leaves the persisted CartDocument        *)
(* unchanged: it answers without reaching save().                          *)
C6_UpdateUnknownItemNotFound ==
    [][/\ \A r \in Reqs :
            (req'[r].pc = "saving" /\ req'[r].op = "update") =>
                IdAt(req'[r].loaded, req'[r].itemId) # {}
       /\ ( /\ resp'.op = "update"
            /\ resp'.found
            /\ IdAt(resp'.loaded, resp'.itemId) = {}
            /\ resp'.error # StoreDown ) =>
              /\ resp'.status = 404
              /\ resp' # resp => AnswersAtOnce /\ carts' = carts]_vars

W_C6_NotFoundOnCartWithOtherItems ==
    /\ resp.op = "update"
    /\ resp.status = 404
    /\ resp.found
    /\ resp.loaded # << >>
    /\ IdAt(resp.loaded, resp.itemId) = {}
    /\ ItemsIn(carts, resp.userId) = resp.loaded

(* C7: RemoveItem on an existing cart succeeds and leaves exactly the line *)
(* items whose id differs from itemId, in their original order: every      *)
(* variant with that id goes, and when no line item has that id the        *)
(* sequence is unchanged, so that a second application changes nothing.    *)
C7_RemoveLeavesOtherIds ==
    [][\A r \in Reqs :
          LET before == ItemsIn(carts, req[r].userId)
              after == ItemsIn(carts', req[r].userId)
              gone == {before[i].id : i \in IdAt(before, req[r].itemId)}
              Other(it) == it.id \notin gone
          IN  Completes(r, "remove") =>
                  /\ resp'.status = 200
                  /\ after = SelectSeq(before, Other)
                  /\ resp'.body = after
                  /\ IdAt(after, req[r].itemId) = {}
                  /\ IdAt(before, req[r].itemId) = {} => after = before]_vars

W_C7_RemovedBothVariants ==
    LET at == IdAt(resp.loaded, resp.itemId)
    IN  /\ resp.op = "remove"
        /\ resp.status = 200
        /\ \E i \in at, j \in at : resp.loaded[i].size # resp.loaded[j].size
        /\ DocIn(carts, resp.userId) > 0
        /\ ItemsIn(carts, resp.userId) = resp.body
        /\ IdAt(resp.body, resp.itemId) = {}

(* C8: ClearCart, UpdateQuantity and RemoveItem for a userId that has no   *)
(* CartDocument respond 404 without reaching save() and leave the store    *)
(* unchanged; a CartDocument only ever comes into being by the save() of a *)
(* GetCart or an AddItem for its userId.                                   *)
C8_NoCartNotFoundAndNotCreated ==
    [][/\ \A r \in Reqs :
            (req'[r].pc = "saving" /\ req'[r].cart.isNew) =>
                req'[r].op \in {"get", "add"}
       /\ ( /\ resp'.op \in {"clear", "update", "remove"}
            /\ ~resp'.found
            /\ resp'.error # StoreDown ) =>
              /\ resp'.status = 404
              /\ resp' # resp =>
                    /\ AnswersAtOnce
                    /\ carts' = carts
                    /\ DocIn(carts', resp'.userId) = 0
       /\ \A u \in Users :
            (DocIn(carts, u) = 0 /\ DocIn(carts', u) > 0) =>
                \E r \in Reqs : /\ req[r].userId = u
                                /\ Completes(r, "get") \/ Completes(r, "add")
                                /\ resp'.status = 200]_vars

W_C8_NotFoundWithoutCart ==
    /\ resp.op \in {"clear", "update", "remove"}
    /\ resp.status = 404
    /\ ~resp.found
    /\ DocIn(carts, resp.userId) = 0
    /\ Len(carts) > 0

(* C9: a GetCart that finds no CartDocument for its userId does not answer *)
(* before its save(); when it answers with success the response carries an *)
(* empty item sequence and a CartDocument with that userId and empty items *)
(* has been persisted.  With the store reachable it fails only when the    *)
(* unique index rejects its insert because the document was created by a   *)
(* concurrent request in the meantime.                                     *)
C9_GetCartCreatesEmptyCart ==
    [][/\ (AnswersAtOnce /\ resp'.op = "get" /\ resp'.status = 200) =>
            /\ resp'.found
            /\ DocIn(carts, resp'.userId) > 0
       /\ \A r \in Reqs :
            Completes(r, "get") =>
                /\ ~resp'.found
                /\ DocIn(carts', req[r].userId) > 0
                /\ resp'.status = 200 <=> DocIn(carts, req[r].userId) = 0
                /\ resp'.status = 200 =>
                      /\ resp'.body = << >>
                      /\ Len(carts') = Len(carts) + 1
                      /\ ItemsIn(carts', req[r].userId) = << >>]_vars

W_C9_EmptyCartPersisted ==
    /\ resp.op = "get"
    /\ resp.status = 200
    /\ ~resp.found
    /\ resp.body = << >>
    /\ DocIn(carts, resp.userId) > 0
    /\ ItemsIn(carts, resp.userId) = << >>

(* C10: once a CartDocument for a userId exists, one exists in every later *)
(* state: ClearCart and RemoveItem empty or shrink items and never delete  *)
(* the document.                                                           *)
C10_CartDocumentNeverDeleted ==
    [][/\ Len(carts') >= Len(carts)
       /\ \A u \in Users : DocIn(carts, u) > 0 => DocIn(carts', u) > 0]_vars

W_C10_ClearedCartStillExists ==
    /\ resp.op = "clear"
    /\ resp.status = 200
    /\ resp.loaded # << >>
    /\ DocIn(carts, resp.userId) > 0
    /\ ItemsIn(carts, resp.userId) = << >>

(* C11: two mutating requests for one userId can both load the same        *)
(* CartDocument before either saves, and both succeed: the request that    *)
(* saves second stores the quantity it computed from the document it       *)
(* loaded, whatever another request has persisted in the meantime, so the  *)
(* persisted cart reflects only one of the two (a lost update).            *)
C11_StaleSaveOverwrites ==
    [][\A r \in Reqs :
          LET stored == ItemsIn(carts, req[r].userId)
              loaded == req[r].loaded
              at == TripleAt(loaded, req[r].newItem)
              id == IdAt(loaded, req[r].itemId)
              q == req[r].quantity
          IN  /\ ( /\ Completes(r, "add")
                   /\ resp'.status = 200
                   /\ at # {}
                   /\ stored # loaded ) =>
                     ItemsIn(carts', req[r].userId) =
                        [stored EXCEPT ![Least(at)].quantity =
                            Some(loaded[Least(at)].quantity[1]
                                 + Asked(req[r].newItem.quantity))]
              /\ ( /\ Completes(r, "update")
                   /\ resp'.status = 200
                   /\ stored # loaded
                   /\ loaded[Least(id)].quantity #
                         Some(IF q[1] >= 1 THEN q[1] ELSE 1) ) =>
                     ItemsIn(carts', req[r].userId) =
                        [stored EXCEPT ![Least(id)].quantity =
                            Some(IF q[1] >= 1 THEN q[1] ELSE 1)]]_vars

W_C11_BothSucceededOneIncrementLost ==
    LET items == ItemsIn(carts, resp.userId)
        at == TripleAt(resp.loaded, resp.newItem)
        i == Least(at)
        n == Asked(resp.newItem.quantity)
    IN  /\ resp.op = "add"
        /\ resp.status = 200
        /\ at # {}
        /\ resp.before[i].quantity[1] > resp.loaded[i].quantity[1]
        /\ items[i].quantity = Some(resp.loaded[i].quantity[1] + n)
        /\ items[i].quantity[1] < resp.before[i].quantity[1] + n

\* positions of the accounts of coll whose email is the string email
EmailAt(coll, email) == {k \in 1 .. Len(coll) : coll[k].email = email}

\* a handler of /api/auth goes from its findOne on to user.save()
GoesOnToSave(r) == req[r].pc = "idle" /\ req'[r].pc = "savingUser"

(* C12: a Register whose email already has a UserAccount answers 400       *)
(* without reaching save(), whatever password and name it carries, and     *)
(* leaves the accounts, their number included, unchanged.                  *)
C12_RegisterExistingEmailRejected ==
    [][/\ \A r \in Reqs :
            GoesOnToSave(r) =>
                \/ ~IsString(req'[r].email)
                \/ EmailAt(users, req'[r].email[1]) = {}
       /\ ( /\ AnswersAtOnce
            /\ resp'.op = "register"
            /\ resp'.error # StoreDown ) =>
              /\ IsString(resp'.email)
              /\ EmailAt(users, resp'.email[1]) # {}
              /\ resp'.status = 400
              /\ users' = users]_vars

W_C12_RejectedWithOtherPassword ==
    /\ resp.op = "register"
    /\ resp.status = 400
    /\ Len(users) = 1
    /\ users[1].email = resp.email[1]
    /\ Str(users[1].password) # resp.password
    /\ users[1].name # resp.name

(* C13: in every reachable state, interleaved Register requests included,  *)
(* no two UserAccounts have the same email, and no step modifies or        *)
(* deletes an existing UserAccount.                                        *)
C13_OneAccountPerEmailNeverChanged ==
    [][/\ \A i, j \in 1 .. Len(users') :
            users'[i].email = users'[j].email => i = j
       /\ Len(users') >= Len(users)
       /\ \A k \in 1 .. Len(users) : users'[k] = users[k]]_vars

W_C13_SecondInsertRejected ==
    /\ resp.op = "register"
    /\ resp.status = 500
    /\ resp.error = "E11000 duplicate key"
    /\ ~resp.found
    /\ Cardinality(EmailAt(users, resp.email[1])) = 1

(* C14: Login answers 200 if and only if the store holds a UserAccount     *)
(* whose email and password both equal the request's; otherwise it answers *)
(* 401.  Either way the store is unchanged and the response does not carry *)
(* the password.                                                           *)
C14_LoginIffEmailAndPasswordEqual ==
    [][( /\ AnswersAtOnce
         /\ resp'.op = "login"
         /\ resp'.error # StoreDown ) =>
           LET equal == {k \in 1 .. Len(users) :
                            /\ Str(users[k].email) = resp'.email
                            /\ Str(users[k].password) = resp'.password}
           IN  /\ resp'.status = IF equal # {} THEN 200 ELSE 401
               /\ resp'.status = 200 =>
                     /\ resp'.user # << >>
                     /\ resp'.user[1].id \in equal
                     /\ "password" \notin DOMAIN resp'.user[1]
               /\ users' = users
               /\ carts' = carts]_vars

(* C15: a successful UpdateQuantity changes the quantity of the first line *)
(* item whose id is itemId and nothing else: every other line item, the    *)
(* later variants with the same id included, and the length and the order  *)
(* of the sequence stay as they were.                                      *)
C15_UpdateChangesFirstVariantOnly ==
    [][\A r \in Reqs :
          LET before == ItemsIn(carts, req[r].userId)
              after == ItemsIn(carts', req[r].userId)
              first == Least(IdAt(before, req[r].itemId))
          IN  (Completes(r, "update") /\ resp'.status = 200) =>
                  /\ Len(after) = Len(before)
                  /\ \A k \in 1 .. Len(before) :
                        IF k = first
                        THEN after[k] =
                                [before[k] EXCEPT
                                    !.quantity = after[k].quantity]
                        ELSE after[k] = before[k]]_vars

W_C15_LaterVariantKeepsQuantity ==
    LET items == ItemsIn(carts, resp.userId)
        at == IdAt(resp.loaded, resp.itemId)
    IN  /\ resp.op = "update"
        /\ resp.status = 200
        /\ Cardinality(at) = 2
        /\ Len(items) = Len(resp.loaded)
        /\ items[Least(at)].quantity = resp.quantity
        /\ items[Least(at)].quantity # resp.loaded[Least(at)].quantity
        /\ \A k \in at \ {Least(at)} :
              /\ items[k] = resp.loaded[k]
              /\ items[k].quantity # resp.quantity

\* positions of the line items of items whose id is id
SameIdAt(items, id) == {k \in 1 .. Len(items) : items[k].id = id}

(* C16: AddItem matches on the whole (id, size, color) triple by exact     *)
(* equality.  An item whose triple differs from every stored one, if only  *)
(* in size or in color, becomes a further line item with its id; an item   *)
(* whose triple equals a stored one, size and color absent on both sides   *)
(* included, becomes no new line item and is merged into the stored one,   *)
(* whose quantity grows by the incoming quantity.                          *)
C16_AddMatchesWholeTriple ==
    [][\A r \in Reqs :
          LET before == ItemsIn(carts, req[r].userId)
              after == ItemsIn(carts', req[r].userId)
              it == req[r].newItem
              same == TripleAt(before, it)
          IN  Completes(r, "add") =>
                  /\ resp'.status = 200
                  /\ Cardinality(TripleAt(after, it)) = 1
                  /\ IF same = {}
                     THEN /\ Cardinality(SameIdAt(after, it.id)) =
                                Cardinality(SameIdAt(before, it.id)) + 1
                          /\ SubSeq(after, 1, Len(before)) = before
                     ELSE /\ Len(after) = Len(before)
                          /\ SameIdAt(after, it.id) = SameIdAt(before, it.id)
                          /\ before[Least(same)].quantity # Undefined
                          /\ after[Least(same)].quantity =
                                Some(before[Least(same)].quantity[1]
                                     + Asked(it.quantity))]_vars

(* C17: in every reachable state the store holds at most one CartDocument  *)
(* per userId.  When GetCart or AddItem requests for a userId without a    *)
(* cart both find none before either saves, the one that saves second      *)
(* creates no document: its insert is rejected and the store is unchanged. *)
C17_OneCartPerUserId ==
    [][/\ \A i, j \in 1 .. Len(carts') :
            carts'[i].userId = carts'[j].userId => i = j
       /\ \A r \in Reqs :
            ( /\ Completes(r, "get") \/ Completes(r, "add")
              /\ req[r].cart.isNew
              /\ DocIn(carts, req[r].userId) > 0 ) =>
                /\ carts' = carts
                /\ resp'.status = 500]_vars

W_C17_SecondCreationRejected ==
    /\ resp.op \in {"get", "add"}
    /\ ~resp.found
    /\ resp.status = 500
    /\ resp.error = "E11000 duplicate key"
    /\ Len(carts) = 1
    /\ carts[1].userId = resp.userId

\* the request that takes this step is a request of one of ops, for userId
\* u when it is a cart request
StepOf(ops, u) ==
    \/ /\ AnswersAtOnce
       /\ resp'.op \in ops
       /\ resp'.userId = u
    \/ \E r \in Reqs :
          LET rq == IF req[r].pc = "idle" THEN req'[r] ELSE req[r]
          IN  /\ req'[r] # req[r]
              /\ rq.op \in ops
              /\ rq.userId = u

(* C18: a cart operation for a userId leaves the CartDocument of every     *)
(* other userId and all UserAccounts unchanged, and creates no document    *)
(* for another userId; Register and Login leave all CartDocuments          *)
(* unchanged; GetCart on an existing cart answers without a save() and     *)
(* changes nothing in the store.                                           *)
C18_OperationsTouchOnlyTheirDocument ==
    [][/\ \A u \in Users :
            StepOf(CartOps, u) =>
                /\ users' = users
                /\ \A v \in Users \ {u} :
                      /\ DocIn(carts', v) = DocIn(carts, v)
                      /\ DocIn(carts, v) > 0 =>
                            carts'[DocIn(carts, v)] = carts[DocIn(carts, v)]
       /\ StepOf(AuthOps, "") => carts' = carts
       /\ \A r \in Reqs :
            (req'[r].pc = "saving" /\ req'[r].op = "get") =>
                /\ req'[r].cart.isNew
                /\ req[r].pc = "idle" => DocIn(carts, req'[r].userId) = 0
       /\ (AnswersAtOnce /\ resp'.op = "get") =>
                carts' = carts /\ users' = users]_vars

W_C18_OtherCartAndAccountsInPlace ==
    LET other == CHOOSE v \in Users : v # resp.userId
    IN  /\ resp.op \in {"add", "update", "remove", "clear"}
        /\ resp.status = 200
        /\ ItemsIn(carts, resp.userId) # resp.loaded
        /\ ItemsIn(carts, other) # << >>
        /\ Len(users) > 0

\* request r's last store call is answered in this step
Ends(r) == req[r].pc \in {"saving", "savingUser"} /\ req'[r].pc = "idle"

(* C19: an operation whose findOne or save() fails answers 500 in that     *)
(* step and is over: it is not retried, and the store is as it was when    *)
(* the operation began.  An operation writes at most once, in the step in  *)
(* which it answers with success, so no partial mutation is ever stored.   *)
C19_FailureAnswersOnceStoreUnchanged ==
    [][/\ (carts' # carts \/ users' # users) =>
            /\ resp'.status = 200
            /\ \E r \in Reqs : Ends(r) /\ resp'.op = req[r].op
       /\ \A r \in Reqs :
            (req[r].pc = "idle" /\ req'[r].pc # "idle") =>
                carts' = carts /\ users' = users /\ resp' = resp
       /\ \A r \in Reqs :
            (Ends(r) /\ resp'.status = 500) =>
                /\ req'[r] = Idle
                /\ carts' = carts
                /\ users' = users
                /\ req[r].op \in CartOps =>
                      /\ ItemsIn(carts', req[r].userId) = req[r].loaded
                      /\ req[r].cart.isNew =>
                            DocIn(carts', req[r].userId) = 0
                /\ req[r].op = "register" =>
                      \/ ~IsString(req[r].email)
                      \/ EmailAt(users', req[r].email[1]) = {}
       /\ (AnswersAtOnce /\ resp'.status = 500) =>
            /\ carts' = carts
            /\ users' = users
            /\ \A r \in Reqs : req'[r] = Idle]_vars

W_C19_FailedSaveLeftCartAsLoaded ==
    /\ resp.op \in {"add", "clear"}
    /\ resp.status = 500
    /\ resp.error = StoreDown
    /\ resp.found
    /\ resp.loaded # << >>
    /\ ItemsIn(carts, resp.userId) = resp.loaded
    /\ \A r \in Reqs : req[r] = Idle

====
